---------------------------- MODULE Spec2Model ----------------------------
(***************************************************************************)
(* Model of internal/signatures.go of ChopChop: the signature data model,  *)
(* Check.Match, ParseSignatures and PrintSignatures.                       *)
(*                                                                         *)
(* Go strings and byte slices are sequences of one-character strings       *)
(* (<<"k", ":", "v">> is "k:v"); a Go pointer is a sequence of length at   *)
(* most one (<<>> is nil, <<x>> points to x); a Go map is a function whose *)
(* DOMAIN is the set of keys present.                                      *)
(***************************************************************************)
EXTENDS Naturals, Sequences, FiniteSets

VARIABLES
    check,      \* *Check handed to Match (shared by the running calls)
    resp,       \* *HTTPResponse handed to Match (shared by the running calls)
    frame,      \* per worker: the position and locals of its Match call
    doc,        \* the Signatures value yaml.Unmarshal produced
    parsed,     \* what ParseSignatures returned: <<>> before the call, <<[sign, err]>> after
    printed     \* what PrintSignatures rendered: <<>> before the call, <<[sevStr, rows, cpt]>> after

vars == <<check, resp, frame, doc, parsed, printed>>

---------------------------------------------------------------------------
(* Bounds of the model *)

\* longest response body
MaxBodyLen == 2
\* largest number of rules (body patterns and header entries together) of a
\* Check built directly by a caller of Match
MaxRules == 3
\* largest number of checks of a rule file
MaxChecks == 2

---------------------------------------------------------------------------
(* Strings *)

\* bytes.Contains / strings.Contains: sub occurs in s as a contiguous run
Contains(s, sub) ==
    \E k \in 0..(Len(s) - Len(sub)) :
        \A j \in 1..Len(sub) : s[k + j] = sub[j]

\* strings.Count(s, ":") for the one-byte separator ":"
Count(s) ==
    Cardinality({k \in 1..Len(s) : s[k] = ":"})

\* strings.SplitN(s, ":", 2) in place of strings.Split: cut at the first
\* separator only
SplitAtFirst(s) ==
    IF \A k \in 1..Len(s) : s[k] # ":"
    THEN <<s>>
    ELSE LET p == CHOOSE k \in 1..Len(s) :
                      s[k] = ":" /\ \A j \in 1..(k - 1) : s[j] # ":"
         IN  <<SubSeq(s, 1, p - 1), SubSeq(s, p + 1, Len(s))>>

\* strings.Split(s, ":"): the pieces between the separators, in order
RECURSIVE Split(_)
Split(s) ==
    IF \A k \in 1..Len(s) : s[k] # ":"
    THEN <<s>>
    ELSE LET p == CHOOSE k \in 1..Len(s) :
                      s[k] = ":" /\ \A j \in 1..(k - 1) : s[j] # ":"
         IN  <<SubSeq(s, 1, p - 1)>> \o Split(SubSeq(s, p + 1, Len(s)))

---------------------------------------------------------------------------
(* Errors *)

NoErr == [type |-> "nil", arg |-> <<>>]

\* &ErrNilParameter{name}
ErrNilParameter(name) == [type |-> "ErrNilParameter", arg |-> name]

\* &ErrInvalidHeaderFormat{header}
ErrInvalidHeaderFormat(header) == [type |-> "ErrInvalidHeaderFormat", arg |-> header]

\* &ErrCheckInvalidField{Check: name, Field: field}
ErrCheckInvalidField(name, field) ==
    [type |-> "ErrCheckInvalidField", arg |-> <<name, field>>]

---------------------------------------------------------------------------
(* Values the inputs are drawn from *)

\* sequences over S of length exactly k, and of length at most n
SeqsOfLen(S, k) == [1..k -> S]
SeqsUpTo(S, n) == UNION {SeqsOfLen(S, k) : k \in 0..n}

RECURSIVE Sum(_)
Sum(l) == IF l = <<>> THEN 0 ELSE Head(l) + Sum(Tail(l))

\* response bodies: every byte string over {a, b} up to MaxBodyLen
Bodies == SeqsUpTo({"a", "b"}, MaxBodyLen)

\* body patterns: "a" and "ab"
Patterns == {<<"a">>, <<"a", "b">>}

\* header entries: "k:v" (well formed), "k" (no colon), "k:v:v" (two colons)
HeaderEntries == {<<"k", ":", "v">>, <<"k">>, <<"k", ":", "v", ":", "v">>}

\* response header maps: key "k" absent, or present with the values listed
HeaderMaps ==
    UNION {[K -> {<<>>, <<<<"w">>>>, <<<<"w", "v">>>>, <<<<"w">>, <<"w", "v">>>>}] :
           K \in SUBSET {<<"k">>}}

\* HTTPResponse values
RespInputs == [StatusCode : {200, 404}, Body : Bodies, Header : HeaderMaps]

\* Check values a caller can build directly, with n rules at most; the
\* metadata fields play no part in Match
ChecksWithRules(n) ==
    UNION {[MustMatchOne : SeqsOfLen(Patterns, l[1]),
            MustMatchAll : SeqsOfLen(Patterns, l[2]),
            MustNotMatch : SeqsOfLen(Patterns, l[3]),
            StatusCode   : {<<>>, <<200>>},
            Name         : {"n"},
            Remediation  : {"r"},
            Severity     : {"high"},
            Description  : {"d"},
            Headers      : SeqsOfLen(HeaderEntries, l[4]),
            NoHeaders    : SeqsOfLen(HeaderEntries, l[5])] :
           l \in {l \in [1..5 -> 0..n] : Sum(l) <= n}}

---------------------------------------------------------------------------
(* Check.Match, one step per stage and per loop iteration *)

Workers == {"w1", "w2"}

\* a call frame: where the call is, its loop index, its local found, and
\* the (bool, error) it returned once pc = "done"
Frame(pc) == [pc |-> pc, i |-> 1, found |-> FALSE, ret |-> <<FALSE, NoErr>>]

Return(w, b, err) ==
    frame' = [frame EXCEPT ![w] = [pc |-> "done", i |-> @.i, found |-> @.found,
                                   ret |-> <<b, err>>]]

Goto(w, pc, found) ==
    frame' = [frame EXCEPT ![w] = [pc |-> pc, i |-> 1, found |-> found,
                                   ret |-> @.ret]]

Advance(w) ==
    frame' = [frame EXCEPT ![w].i = @ + 1]

\* the nil tests with resp tested before check.StatusCode
TestNilsRespFirst(w) ==
    /\ frame[w].pc = "entry"
    /\ IF check = <<>> THEN Return(w, FALSE, ErrNilParameter("check"))
       ELSE IF resp = <<>> THEN Return(w, FALSE, ErrNilParameter("resp"))
       ELSE IF check[1].StatusCode = <<>>
            THEN Return(w, FALSE, ErrNilParameter("check.StatusCode"))
       ELSE Goto(w, "status", FALSE)
    /\ UNCHANGED <<check, resp, doc, parsed, printed>>

\* lines 56-65: the nil tests
TestNils(w) ==
    /\ frame[w].pc = "entry"
    /\ IF check = <<>> THEN Return(w, FALSE, ErrNilParameter("check"))
       ELSE IF check[1].StatusCode = <<>>
            THEN Return(w, FALSE, ErrNilParameter("check.StatusCode"))
       ELSE IF resp = <<>> THEN Return(w, FALSE, ErrNilParameter("resp"))
       ELSE Goto(w, "status", FALSE)
    /\ UNCHANGED <<check, resp, doc, parsed, printed>>

\* the status code tested after the body rules instead of before them: the
\* call goes on to the body rules whatever the status code is
TestStatusCodeLate(w) ==
    /\ frame[w].pc = "status"
    /\ Goto(w, "all", FALSE)
    /\ UNCHANGED <<check, resp, doc, parsed, printed>>

\* lines 67-70: the status code
TestStatusCode(w) ==
    /\ frame[w].pc = "status"
    /\ IF resp[1].StatusCode # check[1].StatusCode[1]
       THEN Return(w, FALSE, NoErr)
       ELSE Goto(w, "all", FALSE)
    /\ UNCHANGED <<check, resp, doc, parsed, printed>>

\* lines 72-77: one iteration of the MustMatchAll loop
CheckMatchAll(w) ==
    /\ frame[w].pc = "all"
    /\ LET i == frame[w].i
           rules == check[1].MustMatchAll
       IN  IF i > Len(rules) THEN Goto(w, "one", FALSE)
           ELSE IF ~Contains(resp[1].Body, rules[i]) THEN Return(w, FALSE, NoErr)
           ELSE Advance(w)
    /\ UNCHANGED <<check, resp, doc, parsed, printed>>

\* MustMatchOne with an empty list taken as "no requirement"
CheckMatchOneEmptyPasses(w) ==
    /\ frame[w].pc = "one"
    /\ LET i == frame[w].i
           rules == check[1].MustMatchOne
       IN  IF rules = <<>> THEN Goto(w, "not", FALSE)
           ELSE IF i > Len(rules) THEN Return(w, FALSE, NoErr)
           ELSE IF Contains(resp[1].Body, rules[i]) THEN Goto(w, "not", TRUE)
           ELSE Advance(w)
    /\ UNCHANGED <<check, resp, doc, parsed, printed>>

\* lines 79-89: one iteration of the MustMatchOne loop, and the test of
\* found that follows it
CheckMatchOne(w) ==
    /\ frame[w].pc = "one"
    /\ LET i == frame[w].i
           rules == check[1].MustMatchOne
       IN  IF i > Len(rules) THEN Return(w, FALSE, NoErr)
           ELSE IF Contains(resp[1].Body, rules[i]) THEN Goto(w, "not", TRUE)
           ELSE Advance(w)
    /\ UNCHANGED <<check, resp, doc, parsed, printed>>

\* MustNotMatch consuming the body it scans: the response is cut down to
\* what follows the bytes already compared
CheckNotMatchConsumes(w) ==
    /\ frame[w].pc = "not"
    /\ LET i == frame[w].i
           rules == check[1].MustNotMatch
       IN  IF i > Len(rules) THEN Goto(w, "headers", frame[w].found)
           ELSE IF Contains(resp[1].Body, rules[i]) THEN Return(w, FALSE, NoErr)
           ELSE Advance(w)
    /\ resp' = <<[resp[1] EXCEPT !.Body = IF @ = <<>> THEN @ ELSE Tail(@)]>>
    /\ UNCHANGED <<check, doc, parsed, printed>>

\* lines 91-96: one iteration of the MustNotMatch loop
CheckNotMatch(w) ==
    /\ frame[w].pc = "not"
    /\ LET i == frame[w].i
           rules == check[1].MustNotMatch
       IN  IF i > Len(rules) THEN Goto(w, "headers", frame[w].found)
           ELSE IF Contains(resp[1].Body, rules[i]) THEN Return(w, FALSE, NoErr)
           ELSE Advance(w)
    /\ UNCHANGED <<check, resp, doc, parsed, printed>>

\* only the first value of the response header is looked at
ValueFoundFirstOnly(values, val) ==
    Len(values) >= 1 /\ Contains(values[1], val)

\* lines 115-120 and 137-142: some value of the response header contains val
ValueFound(values, val) ==
    \E k \in 1..Len(values) : Contains(values[k], val)

\* lines 98-124: one iteration of the Headers loop
CheckHeaders(w) ==
    /\ frame[w].pc = "headers"
    /\ LET i == frame[w].i
           rules == check[1].Headers
       IN  IF i > Len(rules) THEN Goto(w, "noheaders", frame[w].found)
           ELSE LET hs == Split(rules[i])
                IN  IF Len(hs) # 2
                    THEN Return(w, FALSE, ErrInvalidHeaderFormat(rules[i]))
                    ELSE IF hs[1] \notin DOMAIN resp[1].Header
                    THEN Return(w, FALSE, NoErr)
                    ELSE IF ~ValueFound(resp[1].Header[hs[1]], hs[2])
                    THEN Return(w, FALSE, NoErr)
                    ELSE frame' = [frame EXCEPT ![w].i = @ + 1, ![w].found = TRUE]
    /\ UNCHANGED <<check, resp, doc, parsed, printed>>

\* lines 126-150: one iteration of the NoHeaders loop, and the final return
CheckNoHeaders(w) ==
    /\ frame[w].pc = "noheaders"
    /\ LET i == frame[w].i
           rules == check[1].NoHeaders
       IN  IF i > Len(rules) THEN Return(w, TRUE, NoErr)
           ELSE LET pNH == Split(rules[i])
                IN  IF Len(pNH) # 2
                    THEN Return(w, FALSE, ErrInvalidHeaderFormat(rules[i]))
                    ELSE IF /\ pNH[1] \in DOMAIN resp[1].Header
                            /\ ValueFound(resp[1].Header[pNH[1]], pNH[2])
                    THEN Return(w, FALSE, NoErr)
                    ELSE Advance(w)
    /\ UNCHANGED <<check, resp, doc, parsed, printed>>

\* Check.Match as run by worker w
Match(w) ==
    \/ TestNils(w)
    \/ TestStatusCode(w)
    \/ CheckMatchAll(w)
    \/ CheckMatchOne(w)
    \/ CheckNotMatch(w)
    \/ CheckHeaders(w)
    \/ CheckNoHeaders(w)

---------------------------------------------------------------------------
(* A caller that builds a Check and a response and calls Match once *)

InitMatch ==
    /\ check \in {<<>>} \cup {<<c>> : c \in ChecksWithRules(MaxRules)}
    /\ resp \in {<<>>} \cup {<<r>> : r \in RespInputs}
    /\ frame = [w \in Workers |-> IF w = "w1" THEN Frame("entry") ELSE Frame("idle")]
    /\ doc = <<>>
    /\ parsed = <<>>
    /\ printed = <<>>

NextMatch == Match("w1")

SpecMatch == InitMatch /\ [][NextMatch]_vars

---------------------------------------------------------------------------
(* Two workers that call Match at once on the same Check and response *)

\* a few responses: both status codes, the bodies "a" and "ab", the header
\* "k" absent or present with the value "wv"
RespSamples ==
    [StatusCode : {200, 404},
     Body : {<<"a">>, <<"a", "b">>},
     Header : {[K \in {} |-> <<>>], [K \in {<<"k">>} |-> <<<<"w", "v">>>>]}]

InitConc ==
    /\ check \in {<<>>} \cup {<<c>> : c \in ChecksWithRules(MaxRules)}
    /\ resp \in {<<>>} \cup {<<r>> : r \in RespSamples}
    /\ frame = [w \in Workers |-> Frame("entry")]
    /\ doc = <<>>
    /\ parsed = <<>>
    /\ printed = <<>>

NextConc == \E w \in Workers : Match(w)

SpecConc == InitConc /\ [][NextConc]_vars

---------------------------------------------------------------------------
(* Rule files *)

\* the severity labels StringToSeverity knows
KnownSeverities == {"critical", "high", "medium", "low", "informational"}

ErrInvalidSeverity(s) == [type |-> "ErrInvalidSeverity", arg |-> s]

\* StringToSeverity(s): only its error matters to ParseSignatures
StringToSeverity(s) ==
    IF s \in KnownSeverities THEN NoErr ELSE ErrInvalidSeverity(s)

\* the error of io.ReadAll or yaml.Unmarshal
ErrUnmarshal == [type |-> "ErrUnmarshal", arg |-> <<>>]

\* the rules of a check of a rule file: complete and well formed; without
\* status_code; with a headers entry "k:v:v" (two colons); with a no_headers
\* entry "k" (no colon)
DocRules ==
    {[StatusCode |-> <<200>>, Headers |-> <<<<"k", ":", "v">>>>, NoHeaders |-> <<>>],
     [StatusCode |-> <<>>, Headers |-> <<<<"k", ":", "v">>>>, NoHeaders |-> <<>>],
     [StatusCode |-> <<200>>, Headers |-> <<<<"k", ":", "v", ":", "v">>>>,
      NoHeaders |-> <<>>],
     [StatusCode |-> <<200>>, Headers |-> <<<<"k", ":", "v">>>>,
      NoHeaders |-> <<<<"k">>>>]}

\* the metadata of a check of a rule file: each of description, remediation
\* and severity empty or not, the severity known or not
DocMetadata ==
    [Remediation : {"", "r"},
     Severity    : {"", "high", "low", "bogus"},
     Description : {"", "d"}]

\* the <<metadata, rules>> pairs of the checks of a rule file: every
\* metadata with complete rules or with the malformed headers entry, and
\* the other two rules with the metadata whose fields are all filled and
\* whose severity is known
DocVariants ==
    {v \in DocMetadata \X DocRules :
        \/ v[2].StatusCode # <<>> /\ v[2].NoHeaders = <<>>
        \/ /\ v[1].Description # ""
           /\ v[1].Remediation # ""
           /\ v[1].Severity \in KnownSeverities}

\* the check yaml.Unmarshal fills from metadata m and rules r; the name is
\* set from the place of the check in the file
DocCheck(m, r) ==
    [MustMatchOne |-> <<<<"a">>>>,
     MustMatchAll |-> <<>>,
     MustNotMatch |-> <<>>,
     StatusCode   |-> r.StatusCode,
     Name         |-> "",
     Remediation  |-> m.Remediation,
     Severity     |-> m.Severity,
     Description  |-> m.Description,
     Headers      |-> r.Headers,
     NoHeaders    |-> r.NoHeaders]

CheckNames == <<"c1", "c2", "c3", "c4", "c5", "c6">>
EndpointNames == <<"/p1", "/p2", "/p3", "/p4", "/p5", "/p6">>

\* the ways to spread t checks over plugins of one check at least
RECURSIVE Compositions(_)
Compositions(t) ==
    IF t = 0 THEN {<<>>}
    ELSE UNION {{<<k>> \o c : c \in Compositions(t - k)} : k \in 1..t}

\* the number of checks in the plugins before plugin i
Offset(sh, i) == Sum(SubSeq(sh, 1, i - 1))

\* the Signatures value with sh[i] checks in plugin i, filled in order from
\* the <<metadata, rules>> pairs of fl
DocOf(sh, fl) ==
    [Plugins |->
        [i \in 1..Len(sh) |->
            [Endpoints |-> <<EndpointNames[i]>>,
             Checks |-> [j \in 1..sh[i] |->
                            [DocCheck(fl[Offset(sh, i) + j][1],
                                      fl[Offset(sh, i) + j][2]) EXCEPT
                                !.Name = CheckNames[Offset(sh, i) + j]]],
             FollowRedirects |-> FALSE]]]

\* the shapes of the rule files of at most MaxChecks checks
Shapes == UNION {Compositions(t) : t \in 0..MaxChecks}

---------------------------------------------------------------------------
(* ParseSignatures *)

\* lines 222-227: the headers of one check, from entry i on
RECURSIVE ValidateHeaders(_, _)
ValidateHeaders(headers, i) ==
    IF i > Len(headers) THEN NoErr
    ELSE IF Count(headers[i]) # 1 THEN ErrInvalidHeaderFormat(headers[i])
    ELSE ValidateHeaders(headers, i + 1)

\* the body of the checks loop with the severity tests first
ValidateCheckSeverityFirst(c) ==
    IF c.Severity = "" THEN ErrCheckInvalidField(c.Name, "severity")
    ELSE IF StringToSeverity(c.Severity) # NoErr THEN StringToSeverity(c.Severity)
    ELSE IF c.Description = "" THEN ErrCheckInvalidField(c.Name, "description")
    ELSE IF c.Remediation = "" THEN ErrCheckInvalidField(c.Name, "remediation")
    ELSE ValidateHeaders(c.Headers, 1)

\* the body of the checks loop with a test that status_code is present
ValidateCheckStatusRequired(c) ==
    IF c.Description = "" THEN ErrCheckInvalidField(c.Name, "description")
    ELSE IF c.Remediation = "" THEN ErrCheckInvalidField(c.Name, "remediation")
    ELSE IF c.Severity = "" THEN ErrCheckInvalidField(c.Name, "severity")
    ELSE IF c.StatusCode = <<>> THEN ErrCheckInvalidField(c.Name, "status_code")
    ELSE IF StringToSeverity(c.Severity) # NoErr THEN StringToSeverity(c.Severity)
    ELSE ValidateHeaders(c.Headers, 1)

\* lines 207-227: the body of the checks loop; NoErr when the loop goes on
ValidateCheck(c) ==
    IF c.Description = "" THEN ErrCheckInvalidField(c.Name, "description")
    ELSE IF c.Remediation = "" THEN ErrCheckInvalidField(c.Name, "remediation")
    ELSE IF c.Severity = "" THEN ErrCheckInvalidField(c.Name, "severity")
    ELSE IF StringToSeverity(c.Severity) # NoErr THEN StringToSeverity(c.Severity)
    ELSE ValidateHeaders(c.Headers, 1)

\* lines 206-228: the checks of one plugin, from check j on
RECURSIVE ValidateChecks(_, _)
ValidateChecks(checks, j) ==
    IF j > Len(checks) THEN NoErr
    ELSE IF ValidateCheck(checks[j]) # NoErr THEN ValidateCheck(checks[j])
    ELSE ValidateChecks(checks, j + 1)

\* lines 204-229: the plugins, from plugin i on
RECURSIVE ValidatePlugins(_, _)
ValidatePlugins(plugins, i) ==
    IF i > Len(plugins) THEN NoErr
    ELSE IF ValidateChecks(plugins[i].Checks, 1) # NoErr
    THEN ValidateChecks(plugins[i].Checks, 1)
    ELSE ValidatePlugins(plugins, i + 1)

\* lines 189-232: the (*Signatures, error) returned for what was unmarshalled
\* (d = <<>> when reading or unmarshalling failed)
ParseSignatures(d) ==
    IF d = <<>> THEN [sign |-> <<>>, err |-> ErrUnmarshal]
    ELSE IF ValidatePlugins(d[1].Plugins, 1) # NoErr
    THEN [sign |-> <<>>, err |-> ValidatePlugins(d[1].Plugins, 1)]
    ELSE [sign |-> d, err |-> NoErr]

---------------------------------------------------------------------------
(* PrintSignatures *)

\* lines 243-244 with cpt++ after the if: every check is counted
AppendIfCountAll(acc, plugin, c, sevStr) ==
    IF sevStr = c.Severity
    THEN [rows |-> Append(acc.rows,
                          <<plugin.Endpoints, c.Name, c.Severity, c.Description>>),
          cpt |-> acc.cpt + 1]
    ELSE [rows |-> acc.rows, cpt |-> acc.cpt + 1]

\* lines 242-245: the row of check c of plugin, appended when its severity
\* is sevStr
AppendIf(acc, plugin, c, sevStr) ==
    IF sevStr = c.Severity
    THEN [rows |-> Append(acc.rows,
                          <<plugin.Endpoints, c.Name, c.Severity, c.Description>>),
          cpt |-> acc.cpt + 1]
    ELSE acc

\* lines 241-246: the checks of one plugin, from check j on
RECURSIVE PrintChecks(_, _, _, _)
PrintChecks(acc, plugin, j, sevStr) ==
    IF j > Len(plugin.Checks) THEN acc
    ELSE PrintChecks(AppendIf(acc, plugin, plugin.Checks[j], sevStr),
                     plugin, j + 1, sevStr)

\* lines 240-247: the plugins, from plugin i on
RECURSIVE PrintPlugins(_, _, _, _)
PrintPlugins(acc, plugins, i, sevStr) ==
    IF i > Len(plugins) THEN acc
    ELSE PrintPlugins(PrintChecks(acc, plugins[i], 1, sevStr),
                      plugins, i + 1, sevStr)

\* lines 235-250: the rows and the footer total handed to the table writer
PrintSignatures(sign, sevStr) ==
    PrintPlugins([rows |-> <<>>, cpt |-> 0], sign.Plugins, 1, sevStr)

---------------------------------------------------------------------------
(* A run that loads a rule file, then prints it or matches one response *)

Loaded == parsed # <<>> /\ parsed[1].sign # <<>>

\* ParseSignatures(r) on the rule file
CallParseSignatures ==
    /\ parsed = <<>>
    /\ parsed' = <<ParseSignatures(doc)>>
    /\ UNCHANGED <<check, resp, frame, doc, printed>>

\* PrintSignatures(sign, sevStr, w) on the loaded signatures
CallPrintSignatures ==
    /\ Loaded
    /\ printed = <<>>
    /\ frame["w1"].pc = "idle"
    /\ \E sevStr \in {"high", "low", "medium"} :
           printed' = <<[sevStr |-> sevStr,
                         rows |-> PrintSignatures(parsed[1].sign[1], sevStr).rows,
                         cpt |-> PrintSignatures(parsed[1].sign[1], sevStr).cpt]>>
    /\ UNCHANGED <<check, resp, frame, doc, parsed>>

\* check.Match(resp) on a check of the loaded signatures
CallMatch ==
    /\ Loaded
    /\ printed = <<>>
    /\ frame["w1"].pc = "idle"
    /\ \E p \in 1..Len(parsed[1].sign[1].Plugins) :
           \E c \in 1..Len(parsed[1].sign[1].Plugins[p].Checks) :
               check' = <<parsed[1].sign[1].Plugins[p].Checks[c]>>
    /\ resp' \in {<<>>} \cup {<<r>> : r \in RespSamples}
    /\ frame' = [frame EXCEPT !["w1"] = Frame("entry")]
    /\ UNCHANGED <<doc, parsed, printed>>

InitLoad ==
    /\ \/ doc = <<>>
       \/ \E sh \in Shapes :
              \E fl \in [1..Sum(sh) -> DocVariants] :
                  doc = <<DocOf(sh, fl)>>
    /\ parsed = <<>>
    /\ printed = <<>>
    /\ check = <<>>
    /\ resp = <<>>
    /\ frame = [w \in Workers |-> Frame("idle")]

NextLoad ==
    \/ CallParseSignatures
    \/ CallPrintSignatures
    \/ CallMatch
    \/ Match("w1")

SpecLoad == InitLoad /\ [][NextLoad]_vars

---------------------------------------------------------------------------
(* What the claims speak of, stated without the steps of Match *)

\* the entry holds exactly one ':'
ExactlyOneColon(h) == Count(h) = 1

\* the KEY and the VALUE of an entry KEY:VALUE
ColonAt(h) == CHOOSE k \in 1..Len(h) : h[k] = ":"
KeyOf(h) == SubSeq(h, 1, ColonAt(h) - 1)
ValueOf(h) == SubSeq(h, ColonAt(h) + 1, Len(h))

\* the call Match was given a Check with a status code and a response
Evaluable == check # <<>> /\ check[1].StatusCode # <<>> /\ resp # <<>>

StatusEqual == resp[1].StatusCode = check[1].StatusCode[1]

AllMatch ==
    \A k \in 1..Len(check[1].MustMatchAll) :
        Contains(resp[1].Body, check[1].MustMatchAll[k])

OneMatch ==
    \E k \in 1..Len(check[1].MustMatchOne) :
        Contains(resp[1].Body, check[1].MustMatchOne[k])

NoneMatch ==
    \A k \in 1..Len(check[1].MustNotMatch) :
        ~Contains(resp[1].Body, check[1].MustNotMatch[k])

\* the response has the key of h with some value containing the value of h
HeaderHit(h) ==
    /\ KeyOf(h) \in DOMAIN resp[1].Header
    /\ \E k \in 1..Len(resp[1].Header[KeyOf(h)]) :
           Contains(resp[1].Header[KeyOf(h)][k], ValueOf(h))

HeadersPresent ==
    \A k \in 1..Len(check[1].Headers) : HeaderHit(check[1].Headers[k])

NoHeadersAbsent ==
    \A k \in 1..Len(check[1].NoHeaders) : ~HeaderHit(check[1].NoHeaders[k])

AllEntriesWellFormed ==
    /\ \A k \in 1..Len(check[1].Headers) : ExactlyOneColon(check[1].Headers[k])
    /\ \A k \in 1..Len(check[1].NoHeaders) : ExactlyOneColon(check[1].NoHeaders[k])

SixConditions ==
    /\ StatusEqual
    /\ AllMatch
    /\ OneMatch
    /\ NoneMatch
    /\ HeadersPresent
    /\ NoHeadersAbsent

\* the header entries in the order Match reads them, and whether the
\* well-formed entry at place k is met by the response
Entries == check[1].Headers \o check[1].NoHeaders
EntryMet(k) ==
    IF k <= Len(check[1].Headers)
    THEN HeaderHit(Entries[k])
    ELSE ~HeaderHit(Entries[k])

\* place k holds a malformed entry, and every entry before it is well formed
\* and met by the response
ReachedMalformed(k) ==
    /\ ~ExactlyOneColon(Entries[k])
    /\ \A j \in 1..(k - 1) : ExactlyOneColon(Entries[j]) /\ EntryMet(j)

Done(w) == frame[w].pc = "done"

---------------------------------------------------------------------------
(* Claims about Check.Match, under SpecMatch *)

\* C1: for a Check with a status code whose header entries all hold exactly
\* one ':', and a response, Match returns (true, nil) when the six
\* conditions hold together and (false, nil) in every other case.
C1_MatchIffSixConditions ==
    \A w \in Workers :
        (Done(w) /\ Evaluable /\ AllEntriesWellFormed) =>
            frame[w].ret = <<SixConditions, NoErr>>

\* C1 witness: a call returned (true, nil) for a Check with an all_match
\* pattern, a match pattern and a headers entry.
C1_Witness ==
    /\ Done("w1") /\ Evaluable /\ AllEntriesWellFormed
    /\ frame["w1"].ret = <<TRUE, NoErr>>
    /\ check[1].MustMatchAll # <<>>
    /\ check[1].Headers # <<>>

\* C3 as claimed: a Check with a status code and some entry lacking exactly
\* one ':' makes Match return (false, InvalidHeaderFormatError) whatever the
\* response and the other rules are.
C3_AlwaysInvalidHeaderFormat ==
    \A w \in Workers :
        (Done(w) /\ Evaluable /\ ~AllEntriesWellFormed) =>
            /\ frame[w].ret[1] = FALSE
            /\ frame[w].ret[2].type = "ErrInvalidHeaderFormat"

\* C3 amended: for such a Check, Match never returns true; it returns
\* (false, InvalidHeaderFormatError naming the entry) exactly when the status
\* codes are equal, the three body rules pass, and the first malformed entry
\* (headers first, then noHeaders) comes after well-formed entries that the
\* response all meets; otherwise it returns (false, nil).
C3_InvalidHeaderFormatWhenReached ==
    \A w \in Workers :
        (Done(w) /\ Evaluable /\ ~AllEntriesWellFormed) =>
            IF /\ StatusEqual /\ AllMatch /\ OneMatch /\ NoneMatch
               /\ \E k \in 1..Len(Entries) : ReachedMalformed(k)
            THEN \E k \in 1..Len(Entries) :
                     /\ ReachedMalformed(k)
                     /\ frame[w].ret = <<FALSE, ErrInvalidHeaderFormat(Entries[k])>>
            ELSE frame[w].ret = <<FALSE, NoErr>>

\* C3 witness: the error was returned for a malformed noHeaders entry that
\* follows a well-formed headers entry.
C3_Witness ==
    /\ Done("w1") /\ Evaluable
    /\ check[1].Headers # <<>>
    /\ \A k \in 1..Len(check[1].Headers) : ExactlyOneColon(check[1].Headers[k])
    /\ frame["w1"].ret[2].type = "ErrInvalidHeaderFormat"

\* C4: a non-nil Check without a status code makes Match return
\* (false, NilParameterError "check.StatusCode") for every response, the nil
\* response included.
C4_NilStatusCode ==
    \A w \in Workers :
        (Done(w) /\ check # <<>> /\ check[1].StatusCode = <<>>) =>
            frame[w].ret = <<FALSE, ErrNilParameter("check.StatusCode")>>

\* C4 witness: the call returned for a Check without a status code and a
\* nil response.
C4_Witness ==
    /\ Done("w1") /\ check # <<>> /\ check[1].StatusCode = <<>>
    /\ resp = <<>>

\* C5: when the status codes differ the call enters no body or header
\* stage and returns (false, nil), whatever the rules are.
C5_StatusGate ==
    \A w \in Workers :
        (Evaluable /\ ~StatusEqual) =>
            \/ frame[w].pc \in {"idle", "entry", "status"}
            \/ Done(w) /\ frame[w].ret = <<FALSE, NoErr>>

\* C5 witness: the call returned on a status mismatch although the body
\* rules are met and a header entry is malformed.
C5_Witness ==
    /\ Done("w1") /\ Evaluable /\ ~StatusEqual
    /\ AllMatch /\ OneMatch /\ NoneMatch
    /\ check[1].MustMatchAll # <<>>
    /\ ~AllEntriesWellFormed

\* C6: with an empty mustMatchOne Match returns (false, nil), whatever the
\* body and the other rules are.
C6_EmptyMatchOne ==
    \A w \in Workers :
        (Done(w) /\ Evaluable /\ check[1].MustMatchOne = <<>>) =>
            frame[w].ret = <<FALSE, NoErr>>

\* C6 witness: the call returned for an empty mustMatchOne while the status
\* codes are equal, all_match is met and a headers entry is met.
C6_Witness ==
    /\ Done("w1") /\ Evaluable /\ check[1].MustMatchOne = <<>>
    /\ StatusEqual /\ AllMatch /\ check[1].MustMatchAll # <<>>
    /\ check[1].Headers # <<>> /\ AllEntriesWellFormed /\ HeadersPresent

---------------------------------------------------------------------------
(* Claim about concurrent calls, under SpecConc *)

\* what Match returns for check and resp when it runs alone
AloneResult ==
    IF check = <<>> THEN <<FALSE, ErrNilParameter("check")>>
    ELSE IF check[1].StatusCode = <<>>
    THEN <<FALSE, ErrNilParameter("check.StatusCode")>>
    ELSE IF resp = <<>> THEN <<FALSE, ErrNilParameter("resp")>>
    ELSE IF ~(StatusEqual /\ AllMatch /\ OneMatch /\ NoneMatch)
    THEN <<FALSE, NoErr>>
    ELSE IF \E k \in 1..Len(Entries) : ReachedMalformed(k)
    THEN <<FALSE, ErrInvalidHeaderFormat(
                      Entries[CHOOSE k \in 1..Len(Entries) : ReachedMalformed(k)])>>
    ELSE <<\A k \in 1..Len(Entries) : ExactlyOneColon(Entries[k]) /\ EntryMet(k),
           NoErr>>

\* C9: no step of a Match call changes the Check or the response, and under
\* every interleaving of two calls each call returns what it returns alone.
C9_MatchSideEffectFree ==
    [][/\ check' = check
       /\ resp' = resp
       /\ \A w \in Workers :
              frame'[w].pc = "done" => frame'[w].ret = AloneResult]_vars

\* C9 witness: one call returned (true, nil) while the other is still in
\* its body rules.
C9_Witness ==
    /\ Done("w1") /\ frame["w1"].ret = <<TRUE, NoErr>>
    /\ frame["w2"].pc \in {"all", "one", "not"}
    /\ check[1].MustNotMatch # <<>>

---------------------------------------------------------------------------
(* Claims about ParseSignatures and PrintSignatures, under SpecLoad *)

\* the checks of signatures d in document order, each with the endpoints of
\* its plugin
RECURSIVE Flatten(_)
Flatten(plugins) ==
    IF plugins = <<>> THEN <<>>
    ELSE [j \in 1..Len(Head(plugins).Checks) |->
             [endpoints |-> Head(plugins).Endpoints,
              check |-> Head(plugins).Checks[j]]]
         \o Flatten(Tail(plugins))

DocFlat == Flatten(doc[1].Plugins)

\* the least number of S
Least(S) == CHOOSE k \in S : \A j \in S : k <= j

MalformedAt(entries) == {k \in 1..Len(entries) : ~ExactlyOneColon(entries[k])}

\* the validation rules of section 4.2 in their order: which of them check
\* c fails
FailedRules(c) ==
    {n \in 1..5 :
        \/ n = 1 /\ c.Description = ""
        \/ n = 2 /\ c.Remediation = ""
        \/ n = 3 /\ c.Severity = ""
        \/ n = 4 /\ c.Severity \notin KnownSeverities
        \/ n = 5 /\ MalformedAt(c.Headers) # {}}

\* the error of rule n for check c
RuleError(c, n) ==
    IF n = 1 THEN ErrCheckInvalidField(c.Name, "description")
    ELSE IF n = 2 THEN ErrCheckInvalidField(c.Name, "remediation")
    ELSE IF n = 3 THEN ErrCheckInvalidField(c.Name, "severity")
    ELSE IF n = 4 THEN ErrInvalidSeverity(c.Severity)
    ELSE ErrInvalidHeaderFormat(c.Headers[Least(MalformedAt(c.Headers))])

InvalidAt(flat) == {k \in 1..Len(flat) : FailedRules(flat[k].check) # {}}

\* C2 as claimed: no SignatureSet is returned with a Check that has a
\* headers or no_headers entry without exactly one ':'.
C2_NoMalformedEntryLoaded ==
    Loaded =>
        \A k \in 1..Len(Flatten(parsed[1].sign[1].Plugins)) :
            LET c == Flatten(parsed[1].sign[1].Plugins)[k].check
            IN  MalformedAt(c.Headers) = {} /\ MalformedAt(c.NoHeaders) = {}

C8_PrintFiltersBySeverity ==
    printed # <<>> =>
        LET Kept(e) == e.check.Severity = printed[1].sevStr
            kept == SelectSeq(Flatten(parsed[1].sign[1].Plugins), Kept)
        IN  /\ printed[1].rows =
                   [k \in 1..Len(kept) |->
                       <<kept[k].endpoints, kept[k].check.Name,
                         kept[k].check.Severity, kept[k].check.Description>>]
            /\ printed[1].cpt = Len(printed[1].rows)

\* C8 witness: of two loaded checks in two plugins the first was left out
\* and the second was printed.
C8_Witness ==
    /\ printed # <<>>
    /\ Len(doc[1].Plugins) = 2
    /\ Len(DocFlat) = 2
    /\ Len(printed[1].rows) = 1
    /\ printed[1].rows[1][2] = CheckNames[2]

\* C10: ParseSignatures returns the signatures, and no error, for a document
\* whose checks are valid whether or not they have a status code; Match on
\* a loaded check without a status code returns
\* (false, NilParameterError "check.StatusCode") for every response.
C10_StatusCodeDeferredToMatch ==
    /\ (/\ parsed # <<>> /\ doc # <<>>
        /\ \A k \in 1..Len(DocFlat) :
               /\ FailedRules(DocFlat[k].check) = {}
               /\ MalformedAt(DocFlat[k].check.NoHeaders) = {})
           => parsed[1] = [sign |-> doc, err |-> NoErr]
    /\ \A w \in Workers :
           (Done(w) /\ check # <<>> /\ check[1].StatusCode = <<>>) =>
               frame[w].ret = <<FALSE, ErrNilParameter("check.StatusCode")>>

\* C10 witness: Match returned for a non-nil response and the second check
\* of a loaded document, a check without a status code.
C10_Witness ==
    /\ Loaded /\ Done("w1")
    /\ Len(DocFlat) = 2
    /\ check = <<DocFlat[2].check>>
    /\ check[1].StatusCode = <<>>
    /\ resp # <<>>

===========================================================================
